---------------------------- MODULE Spec2Model ----------------------------
(***************************************************************************)
(* A model of steelcut's command execution engine                          *)
(* (steelcut/commandmanager: UnixCommandManager), of its fleet dispatchers *)
(* (steelcut/hostgroup.go: HostGroup.Run / RunCommandOnAll and the CLI's   *)
(* processHosts and monitorHosts), of NewHost and of package control.      *)
(*                                                                         *)
(* Six specifications share the module:                                    *)
(*   SpecGroup  HostGroup.Run interleaved with AddHost / RemoveHost        *)
(*   SpecProc   processHosts interleaved with AddHost / RemoveHost         *)
(*   SpecCmd    one call of UnixCommandManager.Run, step by step           *)
(*   SpecHost   calls of steelcut.NewHost and host.NewHost                 *)
(*   SpecPkg    EnsurePackagePresent / EnsurePackageAbsent on one host     *)
(*   SpecMon    monitorHosts interleaved with AddHost / RemoveHost         *)
(*                                                                         *)
(* Text is modelled as a sequence of words, so that strings.Contains is a  *)
(* real substring search.  Wall-clock fields of CommandResult (Duration,   *)
(* Timestamp) are left out.                                                *)
(***************************************************************************)
EXTENDS Integers, Sequences, FiniteSets, TLC

\* ------------------------------------------------------------------ bounds
NumHostnames == 2
MaxTime == 2
MaxConcurrency == 2
NumPackages == 2

\* ------------------------------------------------------- program constants
DefaultDialTimeout == 15

\* -------------------------------------------------------------- text, errors
AllHostnames == <<"example.com", "localhost", "remote", "127.0.0.1", "db1">>
HostnameSet == {AllHostnames[i] : i \in 1..NumHostnames}

\* strings.Contains over word sequences
Contains(s, sub) ==
    \E i \in 0..(Len(s) - Len(sub)) : SubSeq(s, i + 1, i + Len(sub)) = sub

\* error values: type, message text, exit status
Nil == [type |-> "nil", msg |-> <<>>, status |-> 0]
ErrorString(m) == [type |-> "errorString", msg |-> m, status |-> 0]
ExecExitError(n) ==
    [type |-> "exec.ExitError",
     msg |-> IF n < 0 THEN <<"signal:", "killed">> ELSE <<"exit", "status">>,
     status |-> n]
SSHExitError(n) == [type |-> "ssh.ExitError", msg |-> <<"Process", "exited", "with", "status">>, status |-> n]
DeadlineExceeded == [type |-> "context.DeadlineExceeded", msg |-> <<"context", "deadline", "exceeded">>, status |-> 0]

ErrSSHClientNil == ErrorString(<<"SSHClient", "is", "not", "initialized">>)
ErrDial == ErrorString(<<"dial", "tcp:", "connection", "refused">>)
ErrDialTimeout == ErrorString(<<"dial", "tcp:", "i/o", "timeout">>)
ErrNewSession == ErrorString(<<"ssh:", "unexpected", "packet">>)
ErrNoAgent == ErrorString(<<"SSH_AUTH_SOCK", "not", "set">>)
ErrReadKey == ErrorString(<<"open", "id_rsa:", "permission", "refused">>)

\* err.Error()
ErrorText(e) == e.msg

\* the zero CommandResult, CommandResult{}
EmptyResult == [STDOUT |-> <<>>, STDERR |-> <<>>, ExitCode |-> 0, Command |-> <<>>]

getExitCode(err) ==
    IF err # Nil /\ err.type = "exec.ExitError" THEN err.status ELSE 0

checkSudoErrors(result) ==
    IF Contains(result.STDERR, <<"incorrect", "password">>)
      THEN ErrorString(<<"sudo:", "incorrect", "password", "provided">>)
    ELSE IF Contains(result.STDERR, <<"is", "not", "in", "the", "sudoers", "file">>)
      THEN ErrorString(<<"sudo:", "user", "is", "not", "in", "the", "sudoers", "file">>)
    ELSE IF Contains(result.STDERR, <<"timed", "out", "reading", "password">>)
      THEN ErrorString(<<"sudo:", "password", "prompt", "timed", "out">>)
    ELSE IF Contains(result.STDERR, <<"no", "tty", "present", "and", "no", "askpass", "program", "specified">>)
      THEN ErrorString(<<"sudo:", "cannot", "prompt", "for", "password">>)
    ELSE IF Contains(result.STDERR, <<"unknown", "user">>)
      THEN ErrorString(<<"sudo:", "specified", "user", "is", "unknown">>)
    ELSE IF Contains(result.STDERR, <<"unable", "to", "execute">>)
      THEN ErrorString(<<"sudo:", "unable", "to", "execute", "the", "specified", "command">>)
    ELSE IF Contains(result.STDERR, <<"Permission", "denied">>)
      THEN ErrorString(<<"permission", "denied:", "consider", "using", "sudo">>)
    ELSE Nil


\* ------------------------------------------- what a command's process does
\* stdout, stderr and exit status a spawned / remote process can produce
ProcOutputs ==
    { [stdout |-> <<"hello">>, stderr |-> <<>>, exit |-> 0],
      [stdout |-> <<"incorrect", "password">>, stderr |-> <<>>, exit |-> 0],
      [stdout |-> <<"ok">>, stderr |-> <<"Sorry,", "incorrect", "password">>, exit |-> 0],
      [stdout |-> <<>>, stderr |-> <<"sudo:", "1", "incorrect", "password", "attempt">>, exit |-> 1],
      [stdout |-> <<"part">>, stderr |-> <<"cat:", "Permission", "denied">>, exit |-> 1],
      [stdout |-> <<>>, stderr |-> <<"boom">>, exit |-> 2] }

\* CommandConfig values
ConfigSet == [Command : {"echo"}, Args : {<<"hello">>}, Sudo : BOOLEAN,
              Env : {<<>>, <<"LANG=C">>}]

\* mutant: only the loopback name is recognised, not the loopback address
isLocal_NameOnly(Hostname) == Hostname = "localhost"

isLocal(Hostname) == Hostname = "localhost" \/ Hostname = "127.0.0.1"

\* argv of the local subprocess
LocalArgv(config) ==
    IF config.Sudo
      THEN <<"sudo", "-S", "--", config.Command>> \o config.Args
      ELSE <<config.Command>> \o config.Args

\* cmd.Run() of the local subprocess
LocalRunError(proc) == IF proc.exit = 0 THEN Nil ELSE ExecExitError(proc.exit)

\* mutant: the execution error is returned before the output is classified
RunLocalReturn_ErrFirst(config, proc, err) ==
    LET result == [STDOUT |-> proc.stdout, STDERR |-> proc.stderr,
                   ExitCode |-> getExitCode(err), Command |-> <<config.Command>>]
        sudoErr == checkSudoErrors(result)
    IN  IF err # Nil THEN [result |-> result, err |-> err]
                     ELSE [result |-> result, err |-> sudoErr]

\* RunLocal after cmd.Run() returned err
RunLocalReturn(config, proc, err) ==
    LET result == [STDOUT |-> proc.stdout, STDERR |-> proc.stderr,
                   ExitCode |-> getExitCode(err), Command |-> <<config.Command>>]
        sudoErr == checkSudoErrors(result)
    IN  IF sudoErr # Nil THEN [result |-> result, err |-> sudoErr]
                         ELSE [result |-> result, err |-> err]

\* the command string sent over the session
RemoteCmdStr(config) ==
    LET base == <<config.Command>> \o config.Args
        sudo == IF config.Sudo THEN <<"sudo", "-S", "--">> \o base ELSE base
    IN  IF Len(config.Env) > 0 THEN config.Env \o sudo ELSE sudo

\* session.Run(cmdStr) of the remote command
RemoteRunError(proc) == IF proc.exit = 0 THEN Nil ELSE SSHExitError(proc.exit)

\* the background task of RunRemote: the result it sends on outputCh
RemoteTaskResult(proc) ==
    LET err == RemoteRunError(proc)
    IN  [STDOUT |-> proc.stdout, STDERR |-> proc.stderr,
         ExitCode |-> IF err # Nil THEN getExitCode(err) ELSE 0,
         Command |-> <<>>]

\* RunRemote, select case result := <-outputCh
RunRemoteCompleted(cmdStr, taskResult) ==
    LET result == [taskResult EXCEPT !.Command = cmdStr]
        sudoErr == checkSudoErrors(result)
    IN  IF sudoErr # Nil THEN [result |-> result, err |-> sudoErr]
                         ELSE [result |-> result, err |-> Nil]

\* mutant: every early failure is reported as one generic error
RunRemoteFailed_Generic(err) ==
    [result |-> EmptyResult, err |-> ErrorString(<<"remote", "command", "failed">>)]

\* RunRemote, every return of CommandResult{} with an error
RunRemoteFailed(err) == [result |-> EmptyResult, err |-> err]

\* every (result, error) pair Run can return for a host and a config, when
\* the command's process behaves as one of procs and a remote call that
\* returns before the command ran returns one of fails
RunReturns(Hostname, config, procs, fails) ==
    IF isLocal(Hostname)
      THEN { RunLocalReturn(config, p, LocalRunError(p)) : p \in procs }
      ELSE { RunRemoteFailed(e) : e \in fails }
           \cup { RunRemoteCompleted(RemoteCmdStr(config), RemoteTaskResult(p)) : p \in procs }

\* the process behaviours and early failures the dispatchers' hosts show
FleetProcs ==
    { [stdout |-> <<"hello">>, stderr |-> <<>>, exit |-> 0],
      [stdout |-> <<"part">>, stderr |-> <<"cat:", "Permission", "denied">>, exit |-> 1] }
FleetFails == {ErrDial}

\* ------------------------------------------------------------ the host set
\* two handles can carry the same hostname: a host built twice
HandleSet == [name : HostnameSet, id : {1, 2}]
Names(S) == {x.name : x \in S}

VARIABLES
    Hosts,          \* HostGroup.Hosts: the handles, at most one per hostname
    readers,        \* RWMutex: number of read locks held
    gpc,            \* HostGroup.Run: where the dispatcher is
    results,        \* HostGroup.Run: the results slice
    i,              \* HostGroup.Run: the loop's index counter
    units,          \* HostGroup.Run: the goroutines launched, in launch order
    snap,           \* history: Hosts when the read lock was taken
    firstEvent      \* history: the first AddHost / RemoveHost after Run was called

VARIABLES
    ppc,            \* processHosts: where the caller is
    maxConcurrency, \* processHosts: the limit passed in
    semCap,         \* capacity of the sem channel
    sem,            \* tokens in the sem channel
    errCap,         \* capacity of errCh
    errCh,          \* errors buffered in errCh
    punits,         \* processHosts: the goroutines launched, in launch order
    pret            \* processHosts: the errors of the returned multierror

VARIABLES
    cpc,            \* UnixCommandManager.Run: where the call is
    cm,             \* the UnixCommandManager: Hostname, SSHClient, credentials
    config,         \* the CommandConfig of the call
    deadline,       \* ctx.Deadline(): a time, or NoDeadline
    now,            \* the clock
    dialCalls,      \* calls of SSHDialer.Dial made
    dialTimeout,    \* the timeout handed to the last Dial
    spawned,        \* local subprocesses started
    authMethods,    \* ClientConfig.Auth built by getSSHConfig
    client,         \* the ssh client: "none", "open", "closed"
    session,        \* the ssh session: "none", "open", "closed"
    stdin,          \* what was put on the process's / session's stdin
    task,           \* the background task: "none", "running", "sending", "sent"
    taskResult,     \* the result the task computed
    sel,            \* history: what was ready when select chose, and its choice
    calledAt,       \* history: the clock when Run was called
    path,           \* history: "local" or "remote", the path Run took
    proc,           \* history: what the command's process produced
    cret            \* what Run returned

VARIABLES
    dialErr,        \* history: the error the last SSHDialer.Dial returned
    prev            \* history: the hostnames of the previous dispatch's slots

VARIABLES
    nh              \* NewHost: the call's inputs, where it is, what it returned

VARIABLES
    pm,             \* the package manager in use: "yum" or "apk"
    installed,      \* the packages installed on the host
    ensured         \* history: the Ensure calls made in a row on the host

VARIABLES
    mpc,            \* monitorHosts: where the loop is
    mvisited,       \* monitorHosts: the hosts the range loop has visited
    mcur,           \* monitorHosts: the host whose getHostInfo is in progress
    mstep,          \* getHostInfo: the commands already run on mcur
    mlast           \* monitorHosts: what the last getHostInfo returned

gvars == <<Hosts, readers, gpc, results, i, units, snap, firstEvent>>
pvars == <<ppc, maxConcurrency, semCap, sem, errCap, errCh, punits, pret>>
cvars == <<cpc, cm, config, deadline, now, dialCalls, dialTimeout, spawned,
           authMethods, client, session, stdin, task, taskResult, sel, calledAt,
           path, proc, cret>>
hvars == <<dialErr, prev>>
kvars == <<pm, installed, ensured>>
mvars == <<mpc, mvisited, mcur, mstep, mlast>>
xvars == <<hvars, nh, kvars, mvars>>
vars == <<gvars, pvars, cvars, xvars>>

\* mutant: the host is appended instead of assigned under its hostname
MapAssign_Append(S, h) == S \cup {h}

\* hg.Hosts[h.Hostname] = h
MapAssign(S, h) == {x \in S : x.name # h.name} \cup {h}
\* delete(hg.Hosts, hostname)
MapDelete(S, n) == {x \in S : x.name # n}

NoEvent == [op |-> "none", name |-> "", phase |-> ""]
EmptySlot == [filled |-> FALSE, by |-> "", res |-> EmptyResult]
GroupConfig == [Command |-> "echo", Args |-> <<"hello">>, Sudo |-> FALSE, Env |-> <<>>]

\* the goroutine body of HostGroup.Run after CommandManager.Run returned out
UnitSlot(h, out) ==
    LET r1 == IF out.err # Nil THEN [out.result EXCEPT !.STDERR = ErrorText(out.err)]
                               ELSE out.result
    IN  [filled |-> TRUE, by |-> h.name, res |-> [r1 EXCEPT !.Command = <<GroupConfig.Command>>]]

\* history: the snapshot's hostnames and, slot by slot, the hostname of the
\* host whose goroutine wrote the slot ("" for a slot nobody wrote)
NoPrev == [names |-> {}, by |-> <<>>]
SlotOwners == [names |-> Names(snap), by |-> [k \in 1..Len(results) |-> results[k].by]]

GroupInit ==
    /\ Hosts \in {S \in SUBSET HandleSet : \A a, b \in S : a.name = b.name => a = b}
    /\ readers = 0
    /\ gpc = "idle"
    /\ results = <<>>
    /\ i = 0
    /\ units = <<>>
    /\ snap = {}
    /\ firstEvent = NoEvent
    /\ prev = NoPrev

InFlight == gpc \in {"allocated", "iterating", "waiting"}

\* history: the first mutation of the host set after Run was called and
\* before it returned.  Up to that mutation Hosts is the set Run was called on,
\* so a "remove" or "replace" event names a host of that set.
Event(op, h) ==
    IF InFlight /\ firstEvent = NoEvent
      THEN [op |-> IF h.name \notin Names(Hosts) THEN "add"
                   ELSE IF op = "remove" THEN "remove"
                   ELSE IF h \in Hosts THEN "same" ELSE "replace",
            name |-> h.name, phase |-> gpc]
      ELSE firstEvent

AddHost(h) ==
    /\ gpc # "panic" /\ ppc # "panic"
    /\ readers = 0
    /\ Hosts' = MapAssign(Hosts, h)
    /\ firstEvent' = Event("add", h)
    /\ UNCHANGED <<readers, gpc, results, i, units, snap, pvars, cvars, xvars>>

RemoveHost(n) ==
    /\ gpc # "panic" /\ ppc # "panic"
    /\ readers = 0
    /\ Hosts' = MapDelete(Hosts, n)
    /\ firstEvent' = IF n \in Names(Hosts) THEN Event("remove", [name |-> n, id |-> 0])
                                           ELSE firstEvent
    /\ UNCHANGED <<readers, gpc, results, i, units, snap, pvars, cvars, xvars>>

\* results := make([]CommandResult, len(hg.Hosts))
AllocLen(S) == Cardinality(S)

RunAlloc ==
    /\ gpc \in {"idle", "returned"}
    /\ results' = [k \in 1..AllocLen(Hosts) |-> EmptySlot]
    /\ units' = <<>>
    /\ i' = 0
    /\ snap' = {}
    /\ firstEvent' = NoEvent
    /\ gpc' = "allocated"
    /\ prev' = IF gpc = "returned" THEN SlotOwners ELSE prev
    /\ UNCHANGED <<Hosts, readers, pvars, cvars, dialErr, nh, kvars, mvars>>

RunRLock ==
    /\ gpc = "allocated"
    /\ readers' = readers + 1
    /\ snap' = Hosts
    /\ i' = 0
    /\ gpc' = "iterating"
    /\ UNCHANGED <<Hosts, results, units, firstEvent, pvars, cvars, xvars>>

Launched == {units[k].h : k \in 1..Len(units)}

\* mutant: the loop never advances its index
LaunchIndex_Stuck(n) == 0

\* mutant: a goroutine is handed the index of the one launched before it
LaunchIndex_Shared(n) == IF n > 0 THEN n - 1 ELSE 0

\* the index handed to the goroutine launched for the loop's current host
LaunchIndex(n) == n

RunLaunch ==
    /\ gpc = "iterating"
    /\ \E h \in Hosts \ Launched :
         units' = Append(units, [h |-> h, index |-> LaunchIndex(i), st |-> "launched",
                                 out |-> RunRemoteFailed(Nil)])
    /\ i' = i + 1
    /\ UNCHANGED <<Hosts, readers, gpc, results, snap, firstEvent, pvars, cvars, xvars>>

RunRUnlock ==
    /\ gpc = "iterating"
    /\ Hosts \ Launched = {}
    /\ readers' = readers - 1
    /\ gpc' = "waiting"
    /\ UNCHANGED <<Hosts, results, i, units, snap, firstEvent, pvars, cvars, xvars>>

\* one goroutine: CommandManager.Run, then the write of its slot
UnitRun(k) ==
    /\ gpc \in {"iterating", "waiting"}
    /\ units[k].st = "launched"
    /\ \E out \in RunReturns(units[k].h.name, GroupConfig, FleetProcs, FleetFails) :
         IF units[k].index < Len(results)
           THEN /\ results' = [results EXCEPT ![units[k].index + 1] = UnitSlot(units[k].h, out)]
                /\ units' = [units EXCEPT ![k].st = "done", ![k].out = out]
                /\ gpc' = gpc
           ELSE /\ gpc' = "panic"     \* index out of range
                /\ UNCHANGED <<results, units>>
    /\ UNCHANGED <<Hosts, readers, i, snap, firstEvent, pvars, cvars, xvars>>

\* wg.Wait() returns, Run returns results
RunReturn ==
    /\ gpc = "waiting"
    /\ \A k \in 1..Len(units) : units[k].st = "done"
    /\ gpc' = "returned"
    /\ UNCHANGED <<Hosts, readers, results, i, units, snap, firstEvent, pvars, cvars, xvars>>

GroupNext ==
    \/ \E h \in HandleSet : AddHost(h)
    \/ \E n \in HostnameSet : RemoveHost(n)
    \/ RunAlloc
    \/ RunRLock
    \/ RunLaunch
    \/ RunRUnlock
    \/ \E k \in 1..Len(units) : UnitRun(k)
    \/ RunReturn


\* ------------------------------------------------------------ processHosts
\* the values of the -concurrency flag tried; make(chan, n) panics for n < 0
ConcurrencySet == (0 - 1)..MaxConcurrency

\* mutant: the send never waits for room
ChanCanSend_NoWait(cap, n) == TRUE

\* a send on a channel of capacity cap holding n elements can proceed
\* (nobody receives from sem or errCh while the units run)
ChanCanSend(cap, n) == n < cap

\* the error action(h) returns: the error of the host's CommandManager.Run
ActionErrors(h) == {o.err : o \in RunReturns(h.name, GroupConfig, FleetProcs, {})}

\* mutant: the error is passed on without the host's name
WrapHostError_NoHost(h, err) == [host |-> "", err |-> err]

\* fmt.Errorf("error while processing host %s: %w", h.Hostname, err)
WrapHostError(h, err) == [host |-> h.name, err |-> err]

ProcIdle ==
    /\ ppc = "idle"
    /\ maxConcurrency = 0
    /\ semCap = 0
    /\ sem = 0
    /\ errCap = 0
    /\ errCh = <<>>
    /\ punits = <<>>
    /\ pret = <<>>

\* sem := make(chan struct{}, maxConcurrency); errCh := make(chan error, len(hg.Hosts))
PHCall(n) ==
    /\ ppc \in {"idle", "returned"}
    /\ maxConcurrency' = n
    /\ IF n < 0
         THEN /\ ppc' = "panic"      \* makechan: size out of range
              /\ UNCHANGED <<semCap, sem, errCap, errCh, punits, pret>>
         ELSE /\ ppc' = "allocated"
              /\ semCap' = n
              /\ sem' = 0
              /\ errCap' = Cardinality(Hosts)
              /\ errCh' = <<>>
              /\ punits' = <<>>
              /\ pret' = <<>>
    /\ UNCHANGED <<gvars, cvars, xvars>>

PHRLock ==
    /\ ppc = "allocated"
    /\ readers' = readers + 1
    /\ ppc' = "iterating"
    /\ UNCHANGED <<Hosts, gpc, results, i, units, snap, firstEvent>>
    /\ UNCHANGED <<maxConcurrency, semCap, sem, errCap, errCh, punits, pret, cvars, xvars>>

PLaunched == {punits[k].h : k \in 1..Len(punits)}

PHLaunch ==
    /\ ppc = "iterating"
    /\ \E h \in Hosts \ PLaunched :
         punits' = Append(punits, [h |-> h, st |-> "launched", err |-> Nil])
    /\ UNCHANGED <<gvars, cvars, xvars, ppc, maxConcurrency, semCap, sem, errCap, errCh, pret>>

PHRUnlock ==
    /\ ppc = "iterating"
    /\ Hosts \ PLaunched = {}
    /\ readers' = readers - 1
    /\ ppc' = "waiting"
    /\ UNCHANGED <<Hosts, gpc, results, i, units, snap, firstEvent>>
    /\ UNCHANGED <<maxConcurrency, semCap, sem, errCap, errCh, punits, pret, cvars, xvars>>

\* sem <- struct{}{}
PUnitAcquire(k) ==
    /\ ppc \in {"iterating", "waiting"}
    /\ punits[k].st = "launched"
    /\ ChanCanSend(semCap, sem)
    /\ sem' = sem + 1
    /\ punits' = [punits EXCEPT ![k].st = "running"]
    /\ UNCHANGED <<gvars, cvars, xvars, ppc, maxConcurrency, semCap, errCap, errCh, pret>>

\* err := action(h)
PUnitAction(k) ==
    /\ punits[k].st = "running"
    /\ \E e \in ActionErrors(punits[k].h) :
         punits' = [punits EXCEPT ![k].st = "acted", ![k].err = e]
    /\ UNCHANGED <<gvars, cvars, xvars, ppc, maxConcurrency, semCap, sem, errCap, errCh, pret>>

\* errCh <- fmt.Errorf(...)
PUnitSendErr(k) ==
    /\ punits[k].st = "acted"
    /\ punits[k].err # Nil
    /\ ChanCanSend(errCap, Len(errCh))
    /\ errCh' = Append(errCh, WrapHostError(punits[k].h, punits[k].err))
    /\ punits' = [punits EXCEPT ![k].st = "reported"]
    /\ UNCHANGED <<gvars, cvars, xvars, ppc, maxConcurrency, semCap, sem, errCap, pret>>

\* mutant: the deferred release is lost
SemRelease_Keep(n) == n

\* defer func() { <-sem }(): the tokens left in sem
SemRelease(n) == n - 1

\* the deferred calls: <-sem, then wg.Done()
PUnitExit(k) ==
    /\ \/ punits[k].st = "acted" /\ punits[k].err = Nil
       \/ punits[k].st = "reported"
    /\ sem' = SemRelease(sem)
    /\ punits' = [punits EXCEPT ![k].st = "done"]
    /\ UNCHANGED <<gvars, cvars, xvars, ppc, maxConcurrency, semCap, errCap, errCh, pret>>

\* wg.Wait() returns; close(errCh); the errors are collected and returned
PHReturn ==
    /\ ppc = "waiting"
    /\ \A k \in 1..Len(punits) : punits[k].st = "done"
    /\ pret' = errCh
    /\ errCh' = <<>>
    /\ ppc' = "returned"
    /\ UNCHANGED <<gvars, cvars, xvars, maxConcurrency, semCap, sem, errCap, punits>>

ProcNext ==
    \/ \E h \in HandleSet : AddHost(h)
    \/ \E n \in HostnameSet : RemoveHost(n)
    \/ \E n \in ConcurrencySet : PHCall(n)
    \/ PHRLock
    \/ PHLaunch
    \/ PHRUnlock
    \/ \E k \in 1..Len(punits) : PUnitAcquire(k)
    \/ \E k \in 1..Len(punits) : PUnitAction(k)
    \/ \E k \in 1..Len(punits) : PUnitSendErr(k)
    \/ \E k \in 1..Len(punits) : PUnitExit(k)
    \/ PHReturn


\* ------------------------------------------------- UnixCommandManager.Run
NoDeadline == 0 - 1
DeadlineSet == {NoDeadline} \cup 0..MaxTime
CmdHostnames == {"localhost", "127.0.0.1", "example.com"}
CMSet == [Hostname : CmdHostnames, SSHClient : {"nil", "dialer"},
          Password : {"", "pw"}, KeyPassphrase : {"", "kp"}, SudoPassword : {"", "sp"}]
NoProc == [stdout |-> <<>>, stderr |-> <<>>, exit |-> 0]
NoSel == [branch |-> "none", completed |-> FALSE, expired |-> FALSE]

\* <-ctx.Done() is ready
ctxDone == deadline # NoDeadline /\ now >= deadline

\* dialTimeout as RunRemote computes it
DialTimeout(d, t) == IF d # NoDeadline THEN d - t ELSE DefaultDialTimeout

\* keyManager.ReadPrivateKeys: the signers (their number) and the error it can
\* return; the file manager returns nil, nil when no key file parses
ReadPrivateKeys(KeyPassphrase) ==
    IF KeyPassphrase # ""
      THEN { [keys |-> 1, err |-> Nil], [keys |-> 0, err |-> Nil], [keys |-> 0, err |-> ErrReadKey] }
      ELSE { [keys |-> 1, err |-> Nil], [keys |-> 0, err |-> Nil], [keys |-> 0, err |-> ErrNoAgent] }

\* the key manager getSSHConfig picks for public-key authentication
KeyManager(KeyPassphrase) ==
    IF KeyPassphrase # "" THEN "FileSSHKeyManager" ELSE "AgentSSHKeyManager"

\* the challenges (lists of questions) a server can put to the responder
Challenges == {<<>>, <<"Password:">>, <<"Password:", "Verification code:">>}

\* mutant: the responder answers nothing
handleKeyboardInteractive_Nil(questions) == <<>>

\* handleKeyboardInteractive: make([]string, len(questions)), nil
handleKeyboardInteractive(questions) == [k \in 1..Len(questions) |-> ""]

NoAnswers == [q \in {} |-> <<>>]

\* ssh.Password(c.Password)
AuthPassword ==
    [method |-> "password", signers |-> 0, keyManager |-> "", answers |-> NoAnswers]

\* ssh.PublicKeysCallback over the keys the key manager returned
AuthPublicKeys(KeyPassphrase, keys) ==
    [method |-> "publickey", signers |-> keys, keyManager |-> KeyManager(KeyPassphrase),
     answers |-> NoAnswers]

\* ssh.KeyboardInteractive(handleKeyboardInteractive)
AuthKeyboardInteractive ==
    [method |-> "keyboard-interactive", signers |-> 0, keyManager |-> "",
     answers |-> [q \in Challenges |-> handleKeyboardInteractive(q)]]

\* the errors the SSHDialer returns when it cannot connect
DialErrors == {ErrDial, ErrDialTimeout}

\* mutant: a deferred Close that does nothing
Close_Leak(c) == c

\* defer client.Close() / defer session.Close(), run as RunRemote returns
Close(c) == IF c = "open" THEN "closed" ELSE c

\* mutant: the timeout case does not wait for the deadline
SelectReady_NoWait(taskState, expired) ==
    (IF taskState = "sending" THEN {"output"} ELSE {}) \cup {"timeout"}

\* the cases of RunRemote's select that are ready
SelectReady(taskState, expired) ==
    (IF taskState = "sending" THEN {"output"} ELSE {})
    \cup (IF expired THEN {"timeout"} ELSE {})

\* what is written to the stdin of the sudo process
SudoStdin(c, cfg) == IF cfg.Sudo THEN <<c.SudoPassword, "\n">> ELSE <<>>

CmdIdle ==
    /\ cpc = "idle"
    /\ cm = [Hostname |-> "localhost", SSHClient |-> "nil", Password |-> "",
             KeyPassphrase |-> "", SudoPassword |-> ""]
    /\ config = GroupConfig
    /\ deadline = NoDeadline
    /\ now = 0
    /\ dialCalls = 0
    /\ dialTimeout = 0
    /\ spawned = 0
    /\ authMethods = <<>>
    /\ client = "none"
    /\ session = "none"
    /\ stdin = <<>>
    /\ task = "none"
    /\ taskResult = EmptyResult
    /\ sel = NoSel
    /\ calledAt = 0
    /\ path = "none"
    /\ proc = NoProc
    /\ cret = RunRemoteFailed(Nil)
    /\ dialErr = Nil

Tick ==
    /\ now < MaxTime
    /\ now' = now + 1
    /\ UNCHANGED <<gvars, pvars, xvars, cpc, cm, config, deadline, dialCalls, dialTimeout, spawned,
                   authMethods, client, session, stdin, task, taskResult, sel, calledAt,
                   path, proc, cret>>

\* a caller invokes Run(ctx, config) on a command manager
Call ==
    /\ cpc = "idle"
    /\ cm' \in CMSet
    /\ config' \in ConfigSet
    /\ deadline' \in DeadlineSet
    /\ calledAt' = now
    /\ cpc' = "Run"
    /\ UNCHANGED <<gvars, pvars, xvars, now, dialCalls, dialTimeout, spawned, authMethods, client,
                   session, stdin, task, taskResult, sel, path, proc, cret>>

\* Run: if u.isLocal() RunLocal else RunRemote
RunBranch ==
    /\ cpc = "Run"
    /\ IF isLocal(cm.Hostname)
         THEN cpc' = "RunLocal" /\ path' = "local"
         ELSE cpc' = "RunRemote" /\ path' = "remote"
    /\ UNCHANGED <<gvars, pvars, xvars, cm, config, deadline, now, dialCalls, dialTimeout, spawned,
                   authMethods, client, session, stdin, task, taskResult, sel, calledAt,
                   proc, cret>>

\* RunLocal up to cmd.Run() starting the process; exec refuses to start a
\* command whose context is already done
LocalStart ==
    /\ cpc = "RunLocal"
    /\ IF ctxDone
         THEN /\ cret' = RunLocalReturn(config, NoProc, DeadlineExceeded)
              /\ cpc' = "returned"
              /\ UNCHANGED <<spawned, stdin>>
         ELSE /\ spawned' = spawned + 1
              /\ stdin' = SudoStdin(cm, config)
              /\ cpc' = "LocalWait"
              /\ cret' = cret
    /\ UNCHANGED <<gvars, pvars, xvars, cm, config, deadline, now, dialCalls, dialTimeout,
                   authMethods, client, session, task, taskResult, sel, calledAt, path, proc>>

\* the process exits by itself: cmd.Run() returns, RunLocal returns
LocalExit ==
    /\ cpc = "LocalWait"
    /\ \E p \in ProcOutputs :
         /\ proc' = p
         /\ cret' = RunLocalReturn(config, p, LocalRunError(p))
    /\ cpc' = "returned"
    /\ UNCHANGED <<gvars, pvars, xvars, cm, config, deadline, now, dialCalls, dialTimeout, spawned,
                   authMethods, client, session, stdin, task, taskResult, sel, calledAt, path>>

\* the context expires first: exec kills the process, cmd.Run() returns
LocalKilled ==
    /\ cpc = "LocalWait"
    /\ ctxDone
    /\ \E p \in ProcOutputs :
         /\ proc' = [p EXCEPT !.exit = 0 - 1]
         /\ cret' = RunLocalReturn(config, p, ExecExitError(0 - 1))
    /\ cpc' = "returned"
    /\ UNCHANGED <<gvars, pvars, xvars, cm, config, deadline, now, dialCalls, dialTimeout, spawned,
                   authMethods, client, session, stdin, task, taskResult, sel, calledAt, path>>

\* if u.SSHClient == nil
RemoteCheckClient ==
    /\ cpc = "RunRemote"
    /\ IF cm.SSHClient = "nil"
         THEN cret' = RunRemoteFailed(ErrSSHClientNil) /\ cpc' = "returned"
         ELSE cret' = cret /\ cpc' = "getSSHConfig"
    /\ UNCHANGED <<gvars, pvars, xvars, cm, config, deadline, now, dialCalls, dialTimeout, spawned,
                   authMethods, client, session, stdin, task, taskResult, sel, calledAt,
                   path, proc>>

\* sshConfig, err := u.getSSHConfig()
RemoteGetSSHConfig ==
    /\ cpc = "getSSHConfig"
    /\ IF cm.Password # ""
         THEN /\ authMethods' = <<AuthPassword, AuthKeyboardInteractive>>
              /\ cpc' = "dial"
              /\ cret' = cret
         ELSE \E r \in ReadPrivateKeys(cm.KeyPassphrase) :
                IF r.err # Nil
                  THEN /\ cret' = RunRemoteFailed(r.err)
                       /\ cpc' = "returned"
                       /\ authMethods' = authMethods
                  ELSE /\ authMethods' = <<AuthPublicKeys(cm.KeyPassphrase, r.keys),
                                           AuthKeyboardInteractive>>
                       /\ cpc' = "dial"
                       /\ cret' = cret
    /\ UNCHANGED <<gvars, pvars, xvars, cm, config, deadline, now, dialCalls, dialTimeout, spawned,
                   client, session, stdin, task, taskResult, sel, calledAt, path, proc>>

\* mutant: a failed dial is tried once more
OnDialError_Retry(calls) == IF calls < 2 THEN "dial" ELSE "returned"

\* where RunRemote goes when Dial gave no client: it returns
OnDialError(calls) == "returned"

\* client, err := u.SSHClient.Dial("tcp", u.Hostname+":22", sshConfig, dialTimeout)
RemoteDial ==
    /\ cpc = "dial"
    /\ dialTimeout' = DialTimeout(deadline, now)
    /\ dialCalls' = dialCalls + 1
    /\ \E outcome \in {"error", "nil", "client"} :
         CASE outcome = "error"  -> \E e \in DialErrors :
                                      /\ dialErr' = e
                                      /\ cret' = RunRemoteFailed(e)
                                      /\ cpc' = OnDialError(dialCalls')
                                      /\ client' = client
           [] outcome = "nil"    -> /\ dialErr' = Nil
                                    /\ cret' = RunRemoteFailed(Nil)
                                    /\ cpc' = OnDialError(dialCalls')
                                    /\ client' = client
           [] outcome = "client" -> /\ dialErr' = Nil
                                    /\ cret' = cret /\ cpc' = "newSession" /\ client' = "open"
    /\ UNCHANGED <<gvars, pvars, prev, nh, kvars, mvars, cm, config, deadline, now, spawned, authMethods, session,
                   stdin, task, taskResult, sel, calledAt, path, proc>>

\* session, err := client.NewSession(); defer client.Close() is pending
RemoteNewSession ==
    /\ cpc = "newSession"
    /\ \E outcome \in {"error", "nil", "session"} :
         CASE outcome = "error"   -> /\ cret' = RunRemoteFailed(ErrNewSession)
                                     /\ cpc' = "returned" /\ client' = Close(client)
                                     /\ session' = session
           [] outcome = "nil"     -> /\ cret' = RunRemoteFailed(Nil)
                                     /\ cpc' = "returned" /\ client' = Close(client)
                                     /\ session' = session
           [] outcome = "session" -> /\ cret' = cret /\ cpc' = "start"
                                     /\ client' = client /\ session' = "open"
    /\ UNCHANGED <<gvars, pvars, xvars, cm, config, deadline, now, dialCalls, dialTimeout, spawned,
                   authMethods, stdin, task, taskResult, sel, calledAt, path, proc>>

\* cmdStr is built, the sudo password is put on stdin, the task is started
RemoteStart ==
    /\ cpc = "start"
    /\ stdin' = SudoStdin(cm, config)
    /\ task' = "running"
    /\ cpc' = "select"
    /\ UNCHANGED <<gvars, pvars, xvars, cm, config, deadline, now, dialCalls, dialTimeout, spawned,
                   authMethods, client, session, taskResult, sel, calledAt, path, proc, cret>>

\* the task: session.Run(cmdStr) returns, the task reaches outputCh <- result
TaskRun ==
    /\ task = "running"
    /\ \E p \in ProcOutputs :
         /\ proc' = p
         /\ taskResult' = RemoteTaskResult(p)
    /\ task' = "sending"
    /\ UNCHANGED <<gvars, pvars, xvars, cpc, cm, config, deadline, now, dialCalls, dialTimeout,
                   spawned, authMethods, client, session, stdin, sel, calledAt, path, cret>>

\* select { case result := <-outputCh ... case <-ctx.Done() ... }; the
\* deferred session.Close() and client.Close() run as RunRemote returns
RemoteSelect ==
    /\ cpc = "select"
    /\ \E b \in SelectReady(task, ctxDone) :
         /\ sel' = [branch |-> b, completed |-> (task = "sending"), expired |-> ctxDone]
         /\ IF b = "output"
              THEN /\ cret' = RunRemoteCompleted(RemoteCmdStr(config), taskResult)
                   /\ task' = "sent"
              ELSE /\ cret' = RunRemoteFailed(DeadlineExceeded)
                   /\ task' = task
    /\ session' = Close(session)
    /\ client' = Close(client)
    /\ cpc' = "returned"
    /\ UNCHANGED <<gvars, pvars, xvars, cm, config, deadline, now, dialCalls, dialTimeout, spawned,
                   authMethods, stdin, taskResult, calledAt, path, proc>>

CmdNext ==
    \/ Tick
    \/ Call
    \/ RunBranch
    \/ LocalStart
    \/ LocalExit
    \/ LocalKilled
    \/ RemoteCheckClient
    \/ RemoteGetSSHConfig
    \/ RemoteDial
    \/ RemoteNewSession
    \/ RemoteStart
    \/ TaskRun
    \/ RemoteSelect

\* ------------------------------------------------------------------ NewHost
\* OS names are sequences of pieces, so that strings.HasPrefix is a real
\* prefix test: "Linux_Ubuntu_22" is <<"Linux_", "Ubuntu", "_22">>
OSNames ==
    { <<>>, <<"Linux_", "Ubuntu">>, <<"Linux_", "Ubuntu", "_22">>, <<"Linux_", "Debian">>,
      <<"Linux_", "RedHat">>, <<"Linux_", "CentOS">>, <<"Linux_", "Fedora">>,
      <<"Linux_", "Arch">>, <<"Darwin">>, <<"Darwin", "2">>, <<"UnsupportedOS">>,
      <<"FreeBSD">> }

HasPrefix(s, t) == Len(t) <= Len(s) /\ SubSeq(s, 1, Len(t)) = t

\* mutant: every OS name matches
isOsType_Any(os, types) == TRUE

isOsType(os, types) == \E t \in types : HasPrefix(os, t)

NoHost == [variant |-> "nil", Hostname |-> "", PackageManager |-> ""]
ErrCurrentUser == ErrorString(<<"could", "not", "get", "current", "user">>)
ErrUname == ErrorString(<<"uname:", "command", "failed">>)
ErrUnsupportedOS(os) == ErrorString(<<"unsupported", "operating", "system:">> \o os)

\* steelcut.configureLinuxHost / configureMacHost
configureLinuxHost(hostname, pkgManagerType) ==
    [variant |-> "LinuxHost", Hostname |-> hostname, PackageManager |-> pkgManagerType]
configureMacHost(hostname) ==
    [variant |-> "MacOSHost", Hostname |-> hostname, PackageManager |-> "brew"]

\* what an OSDetector returns: an OS name, or an error
DetectorSet == [OS : OSNames, Err : {Nil}] \cup {[OS |-> <<>>, Err |-> ErrUname]}

\* steelcut.NewHost(hostname, WithUser(User), WithOS(OS), WithOSDetector(Detector));
\* userErr is the error of user.Current()
NewHost(hostname, User, OS, Detector, userErr) ==
    IF User = "" /\ userErr # Nil THEN [host |-> NoHost, err |-> userErr]
    ELSE IF OS = <<>> /\ Detector.Err # Nil THEN [host |-> NoHost, err |-> Detector.Err]
    ELSE
      LET os == IF OS = <<>> THEN Detector.OS ELSE OS
      IN  IF isOsType(os, {<<"Linux_", "Ubuntu">>, <<"Linux_", "Debian">>})
            THEN [host |-> configureLinuxHost(hostname, "apt"), err |-> Nil]
          ELSE IF isOsType(os, {<<"Linux_", "RedHat">>, <<"Linux_", "CentOS">>})
            THEN [host |-> configureLinuxHost(hostname, "yum"), err |-> Nil]
          ELSE IF isOsType(os, {<<"Linux_", "Fedora">>})
            THEN [host |-> configureLinuxHost(hostname, "dnf"), err |-> Nil]
          ELSE IF os = <<"Darwin">>
            THEN [host |-> configureMacHost(hostname), err |-> Nil]
          ELSE [host |-> NoHost, err |-> ErrUnsupportedOS(os)]

\* host.OSType and its String()
OSTypes == {"Unknown", "Linux_Ubuntu", "Linux_Debian", "Linux_Fedora", "Linux_RedHat",
            "Darwin", "Linux_CentOS", "Linux_Arch", "Linux_OpenSUSE"}

\* what uname and cat /etc/os-release print on the host being built
UnameSet == {<<"Linux">>, <<"Darwin">>, <<"FreeBSD">>}
OSReleaseSet ==
    { <<"NAME=Ubuntu", "ID=ubuntu", "ID_LIKE=debian">>, <<"ID=debian">>, <<"ID=fedora">>,
      <<"ID=rhel">>, <<"ID=centos">>, <<"ID=arch">>, <<"ID=opensuse">>, <<"ID=alpine">> }

\* host.detectLinuxType
detectLinuxType(osRelease) ==
    IF Contains(osRelease, <<"ID=ubuntu">>) THEN [os |-> "Linux_Ubuntu", err |-> Nil]
    ELSE IF Contains(osRelease, <<"ID=debian">>) THEN [os |-> "Linux_Debian", err |-> Nil]
    ELSE IF Contains(osRelease, <<"ID=fedora">>) THEN [os |-> "Linux_Fedora", err |-> Nil]
    ELSE IF Contains(osRelease, <<"ID=rhel">>) THEN [os |-> "Linux_RedHat", err |-> Nil]
    ELSE IF Contains(osRelease, <<"ID=centos">>) THEN [os |-> "Linux_CentOS", err |-> Nil]
    ELSE IF Contains(osRelease, <<"ID=arch">>) THEN [os |-> "Linux_Arch", err |-> Nil]
    ELSE IF Contains(osRelease, <<"ID=opensuse">>) THEN [os |-> "Linux_OpenSUSE", err |-> Nil]
    ELSE [os |-> "Unknown",
          err |-> ErrorString(<<"unsupported", "Linux", "distribution", "detected">>)]

\* host.Host.DetermineOS
DetermineOS(uname, osRelease) ==
    IF uname = <<"Linux">> THEN detectLinuxType(osRelease)
    ELSE IF uname = <<"Darwin">> THEN [os |-> "Darwin", err |-> Nil]
    ELSE [os |-> "Unknown", err |-> ErrorString(<<"unknown", "OS:">> \o uname)]

\* host.configureLinuxHost: the package manager chosen
LinuxPackageManager(osType) ==
    IF osType \in {"Linux_Ubuntu", "Linux_Debian"} THEN "apt"
    ELSE IF osType = "Linux_Fedora" THEN "dnf"
    ELSE IF osType \in {"Linux_RedHat", "Linux_CentOS"} THEN "yum"
    ELSE "nil"

\* host.NewHost from the switch on osType
HostSwitch(hostname, osType) ==
    IF osType \in {"Linux_Ubuntu", "Linux_Debian", "Linux_Fedora", "Linux_RedHat",
                   "Linux_CentOS", "Linux_Arch", "Linux_OpenSUSE"}
      THEN [host |-> configureLinuxHost(hostname, LinuxPackageManager(osType)), err |-> Nil]
    ELSE IF osType = "Darwin"
      THEN [host |-> configureMacHost(hostname), err |-> Nil]
    ELSE [host |-> NoHost, err |-> ErrUnsupportedOS(<<osType>>)]

\* host.NewHost(hostname, options...)
HostNewHost(hostname, User, userErr, uname, osRelease) ==
    IF User = "" /\ userErr # Nil THEN [host |-> NoHost, err |-> userErr]
    ELSE LET d == DetermineOS(uname, osRelease)
         IN  IF d.err # Nil THEN [host |-> NoHost, err |-> d.err]
                            ELSE HostSwitch(hostname, d.os)

NoCall == [pc |-> "idle"]
HostIdle == nh = NoCall

\* a call of steelcut.NewHost
CallNewHost ==
    /\ nh.pc = "idle"
    /\ \E hostname \in CmdHostnames, User \in {"", "root"}, OS \in OSNames,
          Detector \in DetectorSet, userErr \in {Nil, ErrCurrentUser} :
         nh' = [pc |-> "NewHost", hostname |-> hostname, User |-> User, OS |-> OS,
                Detector |-> Detector, userErr |-> userErr,
                os |-> IF OS = <<>> THEN Detector.OS ELSE OS,
                out |-> NewHost(hostname, User, OS, Detector, userErr)]
    /\ UNCHANGED <<gvars, pvars, cvars, hvars, kvars, mvars>>

\* a call of host.NewHost
CallHostNewHost ==
    /\ nh.pc = "idle"
    /\ \E hostname \in CmdHostnames, User \in {"", "root"}, userErr \in {Nil, ErrCurrentUser},
          uname \in UnameSet, osRelease \in OSReleaseSet :
         nh' = [pc |-> "host.NewHost", hostname |-> hostname, User |-> User,
                userErr |-> userErr, detected |-> DetermineOS(uname, osRelease),
                out |-> HostNewHost(hostname, User, userErr, uname, osRelease)]
    /\ UNCHANGED <<gvars, pvars, cvars, hvars, kvars, mvars>>

\* the caller takes the result
NewHostDone ==
    /\ nh.pc # "idle"
    /\ nh' = NoCall
    /\ UNCHANGED <<gvars, pvars, cvars, hvars, kvars, mvars>>

HostNext ==
    \/ CallNewHost
    \/ CallHostNewHost
    \/ NewHostDone


\* ---------------------------------------------------------- package control
\* package names are sequences of pieces: "vim" is <<"vim">>, "vim.x86_64" is
\* <<"vim", ".x86_64">>, so that installedPkg == pkg compares the whole text
AllPackages == <<"vim", "curl", "git", "nginx">>
Packages == {AllPackages[k] : k \in 1..NumPackages}
PMSet == {"yum", "apk"}
\* the names a caller passes to Ensure: the bare name, or yum's name.arch
PkgArgs == {<<p>> : p \in Packages} \cup {<<p, ".x86_64">> : p \in Packages}

\* the installed packages in the order the tool lists them
ListingOrder(S) == SelectSeq(SubSeq(AllPackages, 1, NumPackages), LAMBDA p : p \in S)

\* STDOUT of "yum list installed": a header line, then one line per package
\* with the fields name.arch, version, repository
YumListInstalled(S) ==
    <<<< <<"Installed">>, <<"Packages">> >>>>
    \o [k \in 1..Len(ListingOrder(S)) |->
          << <<ListingOrder(S)[k], ".x86_64">>, <<"1.0">>, <<"@base">> >>]

\* STDOUT of "apk info": one package name per line
ApkInfo(S) == [k \in 1..Len(ListingOrder(S)) |-> <<ListingOrder(S)[k]>>]

\* YumPackageManager.ListPackages: the first field of every line after the
\* header that has fields
YumListPackages(lines) ==
    LET rest == SelectSeq(Tail(lines), LAMBDA l : Len(l) > 0)
    IN  [k \in 1..Len(rest) |-> rest[k][1]]

\* ApkPackageManager.ListPackages: strings.Split(strings.TrimSpace(out), "\n");
\* empty output splits into one empty string
ApkListPackages(lines) == IF lines = <<>> THEN << <<>> >> ELSE lines

ListPackages(kind, S) ==
    IF kind = "yum" THEN YumListPackages(YumListInstalled(S))
                    ELSE ApkListPackages(ApkInfo(S))

InList(list, pkg) == \E k \in 1..Len(list) : list[k] = pkg

\* what the install / remove command does on the host: yum takes name and
\* name.arch, apk knows no package called name.arch
KnownTo(kind, pkg) == kind = "yum" \/ Len(pkg) = 1
ErrNoSuchPackage == ErrorString(<<"exit", "status", "1">>)

\* AddPackage(pkg): the command issued, the host afterwards, the error
AddPackage(kind, S, pkg) ==
    IF KnownTo(kind, pkg)
      THEN [issued |-> <<"install">>, installed |-> S \cup {pkg[1]}, err |-> Nil]
      ELSE [issued |-> <<"install">>, installed |-> S, err |-> ErrNoSuchPackage]

RemovePackage(kind, S, pkg) ==
    IF KnownTo(kind, pkg)
      THEN [issued |-> <<"remove">>, installed |-> S \ {pkg[1]}, err |-> Nil]
      ELSE [issued |-> <<"remove">>, installed |-> S, err |-> ErrNoSuchPackage]

\* EnsurePackagePresent(pkg); listErr is the error of ListPackages
EnsurePackagePresent(kind, S, pkg, listErr) ==
    IF listErr # Nil THEN [issued |-> <<>>, installed |-> S, err |-> listErr]
    ELSE IF InList(ListPackages(kind, S), pkg)
      THEN [issued |-> <<>>, installed |-> S, err |-> Nil]
      ELSE AddPackage(kind, S, pkg)

EnsurePackageAbsent(kind, S, pkg, listErr) ==
    IF listErr # Nil THEN [issued |-> <<>>, installed |-> S, err |-> listErr]
    ELSE IF InList(ListPackages(kind, S), pkg)
      THEN RemovePackage(kind, S, pkg)
      ELSE [issued |-> <<>>, installed |-> S, err |-> Nil]

PkgIdle ==
    /\ pm = "apk"
    /\ installed = {}
    /\ ensured = <<>>

\* history: the last two Ensure calls made with nothing in between
Remember(call) == IF Len(ensured) < 2 THEN Append(ensured, call)
                                      ELSE <<ensured[2], call>>

EnsurePresent(pkg) ==
    /\ \E listErr \in {Nil, ErrDial} :
         LET r == EnsurePackagePresent(pm, installed, pkg, listErr)
         IN  /\ installed' = r.installed
             /\ ensured' = Remember([op |-> "present", pkg |-> pkg, issued |-> r.issued,
                                     changed |-> (r.installed # installed), err |-> r.err])
    /\ UNCHANGED <<gvars, pvars, cvars, hvars, nh, mvars, pm>>

EnsureAbsent(pkg) ==
    /\ \E listErr \in {Nil, ErrDial} :
         LET r == EnsurePackageAbsent(pm, installed, pkg, listErr)
         IN  /\ installed' = r.installed
             /\ ensured' = Remember([op |-> "absent", pkg |-> pkg, issued |-> r.issued,
                                     changed |-> (r.installed # installed), err |-> r.err])
    /\ UNCHANGED <<gvars, pvars, cvars, hvars, nh, mvars, pm>>

\* somebody else installs or removes a package on the host
HostChange ==
    /\ \E S \in SUBSET Packages : S # installed /\ installed' = S
    /\ ensured' = <<>>
    /\ UNCHANGED <<gvars, pvars, cvars, hvars, nh, mvars, pm>>

PkgNext ==
    \/ \E pkg \in PkgArgs : EnsurePresent(pkg)
    \/ \E pkg \in PkgArgs : EnsureAbsent(pkg)
    \/ HostChange


\* ------------------------------------------------------------- monitorHosts
\* the commands getHostInfo runs on a host, one after the other
HostInfoCommands == <<"CPUUsage", "FreeMemory", "DiskUsage", "Processes">>
NoName == ""

MonIdle ==
    /\ mpc = "sleeping"
    /\ mvisited = {}
    /\ mcur = NoName
    /\ mstep = 0
    /\ mlast = "none"

\* hg.RLock() at the top of the loop body
MonRLock ==
    /\ mpc = "sleeping"
    /\ readers' = readers + 1
    /\ mpc' = "iterating"
    /\ mvisited' = {}
    /\ UNCHANGED <<Hosts, gpc, results, i, units, snap, firstEvent>>
    /\ UNCHANGED <<pvars, cvars, hvars, nh, kvars, mcur, mstep, mlast>>

\* the range loop takes the next host and calls getHostInfo(host)
MonVisit ==
    /\ mpc = "iterating"
    /\ mcur = NoName
    /\ \E h \in Hosts \ mvisited :
         /\ mcur' = h.name
         /\ mvisited' = mvisited \cup {h}
    /\ mstep' = 0
    /\ UNCHANGED <<gvars, pvars, cvars, hvars, nh, kvars, mpc, mlast>>

\* getHostInfo: the next command on the host returns; an error ends
\* getHostInfo (the loop logs it and continues), the last command completes it
MonCommand ==
    /\ mcur # NoName
    /\ \E err \in {Nil, ErrDial} :
         IF err # Nil
           THEN mlast' = "error" /\ mcur' = NoName /\ mstep' = 0
           ELSE IF mstep + 1 = Len(HostInfoCommands)
                  THEN mlast' = "info" /\ mcur' = NoName /\ mstep' = 0
                  ELSE mlast' = mlast /\ mcur' = mcur /\ mstep' = mstep + 1
    /\ UNCHANGED <<gvars, pvars, cvars, hvars, nh, kvars, mpc, mvisited>>

\* hg.RUnlock() after the range loop, then time.Sleep(f.MonitorInterval)
MonRUnlock ==
    /\ mpc = "iterating"
    /\ mcur = NoName
    /\ Hosts \ mvisited = {}
    /\ readers' = readers - 1
    /\ mpc' = "sleeping"
    /\ UNCHANGED <<Hosts, gpc, results, i, units, snap, firstEvent>>
    /\ UNCHANGED <<pvars, cvars, hvars, nh, kvars, mvisited, mcur, mstep, mlast>>

MonNext ==
    \/ \E h \in HandleSet : AddHost(h)
    \/ \E n \in HostnameSet : RemoveHost(n)
    \/ MonRLock
    \/ MonVisit
    \/ MonCommand
    \/ MonRUnlock

\* ---------------------------------------------------------- specifications
\* a HostGroup built by NewHostGroup, nothing running
Idle == GroupInit /\ ProcIdle /\ CmdIdle /\ HostIdle /\ MonIdle
Init == Idle /\ PkgIdle
\* a command manager used on its own
InitCmd == Init /\ Hosts = {}
\* a host with a package manager and some packages installed
InitPkg ==
    /\ Idle /\ Hosts = {}
    /\ pm \in PMSet
    /\ installed \in SUBSET Packages
    /\ ensured = <<>>

SpecGroup == Init /\ [][GroupNext]_vars
SpecProc == Init /\ [][ProcNext]_vars
SpecCmd == InitCmd /\ [][CmdNext]_vars
SpecHost == InitCmd /\ [][HostNext]_vars
SpecPkg == InitPkg /\ [][PkgNext]_vars
SpecMon == Init /\ [][MonNext]_vars

\* the steps of processHosts and of its goroutines; the Go scheduler runs
\* every goroutine that is not blocked, and every host action returns
ProcProgress ==
    \/ PHRLock
    \/ PHLaunch
    \/ PHRUnlock
    \/ \E k \in 1..Len(punits) : PUnitAcquire(k)
    \/ \E k \in 1..Len(punits) : PUnitAction(k)
    \/ \E k \in 1..Len(punits) : PUnitSendErr(k)
    \/ \E k \in 1..Len(punits) : PUnitExit(k)
    \/ PHReturn

\* processHosts under a fair scheduler
SpecProcFair == Init /\ [][ProcNext]_vars /\ WF_vars(ProcProgress)

\* Run under a fair scheduler: RunRemote and its task take their steps when
\* they can, and session.Run returns
SpecCmdFair ==
    /\ InitCmd /\ [][CmdNext]_vars
    /\ WF_vars(RemoteStart) /\ WF_vars(TaskRun) /\ WF_vars(RemoteSelect)

\* ------------------------------------------------- claims on HostGroup.Run
SlotOf(k) == results[units[k].index + 1]
SlotsFor(n) == {k \in 1..Len(results) : results[k].filled /\ results[k].by = n}
Served(n) == \E k \in 1..Len(units) :
                 /\ units[k].h.name = n
                 /\ units[k].st = "done"
                 /\ units[k].index < Len(results)
                 /\ SlotOf(k).filled /\ SlotOf(k).by = n

\* C1: the result set Run returns has exactly as many entries as the host set
\* had hosts when Run started iterating (the snapshot under the read lock).
C1_ResultCountIsSnapshotSize ==
    gpc = "returned" => Len(results) = Cardinality(snap)

\* errors Run returns before any command ran: the result body is empty
NoOutputErrors == {ErrSSHClientNil, ErrNoAgent, ErrReadKey, ErrDial, ErrDialTimeout, ErrNewSession,
                   DeadlineExceeded}

\* C3 as stated: when Run returns, every host of the dispatch has its own
\* slot; a non-failing host's slot holds its result and no error, a failing
\* host's slot holds its error and an empty result body.
C3_FailingSlotHasEmptyBody ==
    gpc = "returned" =>
      \A k \in 1..Len(units) :
        /\ units[k].st = "done"
        /\ SlotOf(k).filled /\ SlotOf(k).by = units[k].h.name
        /\ units[k].out.err = Nil => SlotOf(k).res.STDOUT = units[k].out.result.STDOUT
                                     /\ SlotOf(k).res.STDERR = units[k].out.result.STDERR
        /\ units[k].out.err # Nil => SlotOf(k).res.STDERR = ErrorText(units[k].out.err)
                                     /\ SlotOf(k).res.STDOUT = <<>>

\* C3 amended: when Run returns, every host of the dispatch has run and has
\* its own slot; a non-failing host's slot holds its result unchanged; a
\* failing host's slot holds the error's text as STDERR and the STDOUT its
\* command captured, which is empty when the call failed before the command
\* ran (dial, session, credentials, deadline).
C3_FailureIsolation ==
    gpc = "returned" =>
      \A k \in 1..Len(units) :
        /\ units[k].st = "done"
        /\ SlotOf(k).filled /\ SlotOf(k).by = units[k].h.name
        /\ SlotOf(k).res.STDOUT = units[k].out.result.STDOUT
        /\ units[k].out.err = Nil => SlotOf(k).res.STDERR = units[k].out.result.STDERR
        /\ units[k].out.err # Nil => SlotOf(k).res.STDERR = ErrorText(units[k].out.err)
        /\ units[k].out.err \in NoOutputErrors => SlotOf(k).res.STDOUT = <<>>

\* a dispatch returned in which one host failed dialing and another succeeded
C3_Witness ==
    /\ gpc = "returned"
    /\ \E j, k \in 1..Len(units) :
         /\ units[j].out.err = ErrDial /\ SlotOf(j).res.STDOUT = <<>>
         /\ SlotOf(j).res.STDERR = ErrorText(ErrDial)
         /\ units[k].out.err = Nil /\ SlotOf(k).res.STDOUT = <<"hello">>
         /\ SlotOf(k).by = units[k].h.name

\* C4: if the first thing to happen to the host set after Run was called is
\* RemoveHost of one of its hosts, Run is unaffected: when it returns, that
\* host's unit has run and its slot is filled.  (A host removed after the
\* snapshot is a host of snap, covered by the first conjunct.)
C4_RemovedHostStillServed ==
    gpc = "returned" =>
      /\ \A n \in Names(snap) : Served(n)
      /\ firstEvent.op = "remove" => Served(firstEvent.name)

\* C5: the host set never holds two handles of one hostname, AddHost leaves
\* exactly its own handle under the hostname, and a dispatch that returns has
\* exactly one result for every hostname of its snapshot.
C5_UniqueNames ==
    /\ \A a, b \in Hosts : a.name = b.name => a = b
    /\ gpc = "returned" => /\ \A n \in Names(snap) : Cardinality(SlotsFor(n)) = 1
                           /\ \A n \in HostnameSet : Cardinality(SlotsFor(n)) <= 1

C5_AddHostStep ==
    \A h \in HandleSet :
      AddHost(h) => {x \in Hosts' : x.name = h.name} = {h}

C5_AddHostReplaces == [](C5_UniqueNames) /\ [][C5_AddHostStep]_vars

\* after Run was called, AddHost replaced the handle of a hostname already in
\* the set, before the snapshot; the dispatch returned one result for it
C5_Witness ==
    /\ gpc = "returned"
    /\ firstEvent.op = "replace" /\ firstEvent.phase = "allocated"
    /\ firstEvent.name \in Names(snap)
    /\ Cardinality(SlotsFor(firstEvent.name)) = 1


\* -------------------------------------------------- claims on processHosts
Running == {k \in 1..Len(punits) : punits[k].st = "running"}

\* C2: for a concurrency limit N >= 1, never more than N host actions are
\* executing at the same time.
C2_AtMostNInFlight ==
    maxConcurrency >= 1 => Cardinality(Running) <= maxConcurrency

\* the limit is 1, one action is executing, another unit waits for the slot
C2_Witness ==
    /\ maxConcurrency = 1
    /\ \E j, k \in 1..Len(punits) : punits[j].st = "running" /\ punits[k].st = "launched"

\* ---------------------------------------- claims on UnixCommandManager.Run
Loopback == {"localhost", "127.0.0.1"}
IncorrectPassword == <<"incorrect", "password">>
ErrIncorrectPassword == ErrorString(<<"sudo:", "incorrect", "password", "provided">>)

\* C6: a manager whose Hostname is "localhost" or "127.0.0.1" takes the local
\* path and never dials; every other hostname takes the remote path.
C6_LoopbackNeverDials ==
    /\ cpc \notin {"idle", "Run"} =>
         path = IF cm.Hostname \in Loopback THEN "local" ELSE "remote"
    /\ cm.Hostname \in Loopback => dialCalls = 0 /\ client = "none" /\ session = "none"
    /\ cm.Hostname \notin Loopback => spawned = 0

\* Run on the loopback address ran a local process and returned, no dial
C6_Witness ==
    /\ cpc = "returned"
    /\ cm.Hostname = "127.0.0.1"
    /\ spawned = 1
    /\ dialCalls = 0

\* errors RunRemote returns before it reaches the dial
ErrorsBeforeDial == {ErrSSHClientNil, ErrNoAgent, ErrReadKey}

\* C7: a remote Run whose deadline had passed when it was called never dials
\* and returns a timeout error (unless it failed before the point of
\* dialing); every timeout handed to Dial is strictly positive.
C7_ExpiredDeadlineNeverDials ==
    /\ path = "remote" /\ deadline # NoDeadline /\ deadline <= calledAt =>
         /\ dialCalls = 0
         /\ cpc = "returned" => cret.err \in {DeadlineExceeded} \cup ErrorsBeforeDial
    /\ dialCalls > 0 => dialTimeout > 0

\* C8: Run with Sudo on a manager without sudo password returns an error
\* before any subprocess is spawned and before any dial is made, on the local
\* and on the remote path.
C8_SudoWithoutPasswordFailsFast ==
    cpc # "idle" /\ config.Sudo /\ cm.SudoPassword = "" =>
      /\ spawned = 0
      /\ dialCalls = 0
      /\ cpc = "returned" => cret.err # Nil

\* Run returned what a command's process wrote
Captured ==
    /\ cpc = "returned"
    /\ \/ path = "local" /\ spawned = 1
       \/ path = "remote" /\ sel.branch = "output"

\* C9 as stated: captured output (either stream) containing "incorrect
\* password" makes Run return the incorrect-password error.
C9_OutputClassified ==
    Captured /\ (Contains(proc.stdout, IncorrectPassword) \/ Contains(proc.stderr, IncorrectPassword))
      => cret.err = ErrIncorrectPassword

\* C9 amended: captured STDERR containing "incorrect password" makes Run
\* return the incorrect-password error together with the captured result, on
\* both paths, whatever the exit status and the execution error.
C9_StderrClassified ==
    Captured /\ Contains(proc.stderr, IncorrectPassword)
      => /\ cret.err = ErrIncorrectPassword
         /\ cret.result.STDERR = proc.stderr
         /\ cret.result.STDOUT = proc.stdout

\* a local command exited 1 with the text on stderr: the sudo error, not the
\* exit error, was returned
C9_Witness ==
    /\ Captured
    /\ path = "local"
    /\ proc.exit = 1
    /\ cret.result.ExitCode = 1
    /\ Contains(proc.stderr, IncorrectPassword)
    /\ cret.err = ErrIncorrectPassword

\* C10: in the remote path, when the deadline wins the race Run returns the
\* timeout error and an empty result; when completion is received Run returns
\* the command's result and no timeout error; a case that is not ready is
\* never taken.
C10_RaceOutcome ==
    cpc = "returned" /\ sel.branch # "none" =>
      /\ sel.branch = "timeout" =>
           sel.expired /\ cret.err = DeadlineExceeded /\ cret.result = EmptyResult
      /\ sel.branch = "output" =>
           /\ sel.completed
           /\ cret.err # DeadlineExceeded
           /\ cret.result = [taskResult EXCEPT !.Command = RemoteCmdStr(config)]
      /\ sel.completed /\ ~sel.expired => sel.branch = "output"
      /\ sel.expired /\ ~sel.completed => sel.branch = "timeout"

\* the deadline won although the command had already produced output
C10_Witness ==
    /\ cpc = "returned"
    /\ sel.branch = "timeout"
    /\ taskResult.STDOUT # <<>>
    /\ cret = RunRemoteFailed(DeadlineExceeded)


\* C11: when a command runs to completion with a non-zero exit status, Run
\* returns a non-nil error and a result carrying the captured stdout and
\* stderr and that exit code, on the local and on the remote path.
C11_NonZeroExitReported ==
    Captured /\ proc.exit > 0 =>
      /\ cret.err # Nil
      /\ cret.result.ExitCode = proc.exit
      /\ cret.result.STDOUT = proc.stdout
      /\ cret.result.STDERR = proc.stderr

\* C12: when SSHDialer.Dial fails, Run returns exactly the dialer's error and
\* the empty result; no client and no session exist, no command was started,
\* and what is returned is nothing a completed command can return.
C12_DialFailureReturned ==
    dialErr # Nil =>
      /\ cpc = "returned"
      /\ cret = [result |-> EmptyResult, err |-> dialErr]
      /\ client = "none" /\ session = "none"
      /\ task = "none" /\ proc = NoProc /\ spawned = 0
      /\ \A p \in ProcOutputs :
           cret # RunRemoteCompleted(RemoteCmdStr(config), RemoteTaskResult(p))

\* the dialer timed out and Run returned that error
C12_Witness ==
    /\ cpc = "returned"
    /\ dialCalls = 1
    /\ dialErr = ErrDialTimeout
    /\ cret.err = ErrDialTimeout
    /\ cret.result = EmptyResult

\* C13: with public-key authentication (no password configured), the auth
\* methods never carry an empty signer list: a key source that yields zero
\* signers makes Run fail before it dials.
C13_NoSignersFailsAuth ==
    /\ \A k \in 1..Len(authMethods) :
         authMethods[k].method = "publickey" => authMethods[k].signers > 0
    /\ path = "remote" /\ cm.Password = "" /\ dialCalls > 0 =>
         \E k \in 1..Len(authMethods) :
           authMethods[k].method = "publickey" /\ authMethods[k].signers > 0

\* C14: the batch call fails (returns an error, or panics) only when the
\* host set is empty or the concurrency limit is zero or negative; errors of
\* individual hosts never make processHosts itself return an error.
C14_BatchFailsOnlyStructurally ==
    /\ ppc = "returned" /\ pret # <<>> => (punits = <<>> \/ maxConcurrency <= 0)
    /\ ppc = "panic" => maxConcurrency <= 0

\* a dispatch that no AddHost / RemoveHost disturbed: one filled slot per host
Undisturbed(d) ==
    /\ Len(d.by) = Cardinality(d.names)
    /\ \A k \in 1..Len(d.by) : d.by[k] \in d.names
    /\ \A j, k \in 1..Len(d.by) : d.by[j] = d.by[k] => j = k

\* C15: which host a slot of the returned results belongs to is determined by
\* the host set: two dispatches over the same hostnames return each host's
\* result in the same slot (the results carry no hostname, so the slot is all
\* a caller has).
C15_SlotsIdentifyHosts ==
    gpc = "returned" /\ Undisturbed(prev) /\ Undisturbed(SlotOwners)
      /\ prev.names = SlotOwners.names
      => prev.by = SlotOwners.by

\* C16: when a host's command returned an error together with captured
\* output, the host's entry in the dispatch's results keeps the captured
\* STDOUT and STDERR and the exact command string unchanged.
C16_ErrorNotEmbedded ==
    gpc = "returned" =>
      \A k \in 1..Len(units) :
        units[k].st = "done" /\ units[k].out.err # Nil /\ units[k].out.result # EmptyResult
          => /\ SlotOf(k).res.STDOUT = units[k].out.result.STDOUT
             /\ SlotOf(k).res.STDERR = units[k].out.result.STDERR
             /\ SlotOf(k).res.Command = units[k].out.result.Command

\* C17: applying the same Ensure operation twice in a row, the first
\* application having succeeded, issues no install / remove command the
\* second time and changes the host at most once.
C17_EnsureIdempotent ==
    /\ Len(ensured) = 2
    /\ ensured[1].op = ensured[2].op /\ ensured[1].pkg = ensured[2].pkg
    /\ ensured[1].err = Nil
    => /\ ensured[2].issued = <<>>
       /\ ~(ensured[1].changed /\ ensured[2].changed)

\* ------------------------------------------------------- claims on NewHost
\* the Linux families steelcut.NewHost knows, and those host.NewHost knows
LinuxFamilies == {"Ubuntu", "Debian", "RedHat", "CentOS", "Fedora"}
LinuxOSTypes == {"Linux_Ubuntu", "Linux_Debian", "Linux_Fedora", "Linux_RedHat",
                 "Linux_CentOS", "Linux_Arch", "Linux_OpenSUSE"}
UnsupportedText == <<"unsupported", "operating", "system:">>

\* the call got as far as selecting the variant: the user and the OS are known
Selecting ==
    /\ nh.pc # "idle"
    /\ (nh.User # "" \/ nh.userErr = Nil)
    /\ nh.pc = "NewHost" => (nh.OS # <<>> \/ nh.Detector.Err = Nil)
    /\ nh.pc = "host.NewHost" => nh.detected.err = Nil

C19_SessionClosedOnReturn ==
    cpc = "returned" =>
      /\ client # "open" /\ session # "open"
      /\ sel.branch # "none" => client = "closed" /\ session = "closed"

\* the deadline won while the remote command was still running
C19_Witness ==
    /\ cpc = "returned"
    /\ sel.branch = "timeout"
    /\ task = "running"
    /\ client = "closed" /\ session = "closed"

\* -------------------------------------------------- claims on monitorHosts
\* C20: the host-set read lock is never held while a command is running on a
\* host, so AddHost / RemoveHost never wait for a host's command.
C20_LockNotHeldAcrossCommands ==
    (mcur # NoName \/ Running # {}) => readers = 0

\* ------------------------------------------ further claims on processHosts
\* the units that hold an admission slot: they acquired it and have not yet
\* run their deferred release
Admitted == {k \in 1..Len(punits) : punits[k].st \in {"running", "acted", "reported"}}

C22_SlotsNotShared ==
    /\ \A j, k \in 1..Len(units) :
         j # k => units[j].index # units[k].index /\ units[j].h # units[k].h
    /\ \A k \in 1..Len(results) :
         results[k].filled =>
           \E j \in 1..Len(units) : /\ units[j].index = k - 1
                                    /\ units[j].st = "done"
                                    /\ results[k].by = units[j].h.name
    /\ gpc = "returned" =>
         \A j \in 1..Len(units) :
           /\ units[j].st = "done"
           /\ units[j].index < Len(results)
           /\ SlotOf(j).filled /\ SlotOf(j).by = units[j].h.name

\* a slot that has been written is not written again during the dispatch
C22_WrittenOnce ==
    gpc' # "allocated" =>
      \A k \in 1..Len(results) :
        results[k].filled => k <= Len(results') /\ results'[k] = results[k]

\* C22: a dispatch returns only after every unit it launched has written its
\* outcome; every unit has a slot of its own, fixed at launch, which only that
\* unit writes, and writes once.
C22_OneWriterPerSlot == [](C22_SlotsNotShared) /\ [][C22_WrittenOnce]_vars

\* the unit launched second has written its slot while the unit launched
\* first has not yet run
C22_Witness ==
    /\ gpc = "waiting"
    /\ Len(units) = 2
    /\ units[1].st = "launched" /\ ~results[1].filled
    /\ units[2].st = "done" /\ results[2].filled /\ results[2].by = units[2].h.name

\* ------------------------------------------- further claims on RunRemote
\* getSSHConfig has returned a configuration for the current call
Resolved == path = "remote" /\ cpc \in {"dial", "newSession", "start", "select", "returned"}
                            /\ authMethods # <<>>

\* C23: a resolved configuration holds exactly two methods: first the password
\* method iff a password is configured, else the public-key method fed by the
\* agent (no key passphrase) or by the passphrase-decrypted key files; second
\* the keyboard-interactive responder, which answers every challenge with one
\* empty response per question.
C23_AuthMethodsResolved ==
    Resolved =>
      /\ Len(authMethods) = 2
      /\ authMethods[1].method \in {"password", "publickey"}
      /\ authMethods[1].method = "password" <=> cm.Password # ""
      /\ authMethods[1].method = "publickey" =>
           /\ cm.KeyPassphrase = "" => authMethods[1].keyManager = "AgentSSHKeyManager"
           /\ cm.KeyPassphrase # "" => authMethods[1].keyManager = "FileSSHKeyManager"
      /\ authMethods[2].method = "keyboard-interactive"
      /\ \A q \in Challenges :
           /\ Len(authMethods[2].answers[q]) = Len(q)
           /\ \A k \in 1..Len(q) : authMethods[2].answers[q][k] = ""

\* a manager with a key passphrase and no password resolved to key files and
\* went on to dial
C23_Witness ==
    /\ Resolved /\ cpc = "newSession"
    /\ cm.Password = "" /\ cm.KeyPassphrase # ""
    /\ authMethods[1].keyManager = "FileSSHKeyManager"
    /\ Len(authMethods[2].answers[<<"Password:", "Verification code:">>]) = 2

\* at most one dial and one local process, never both
C24_AtMostOnce ==
    /\ dialCalls <= 1
    /\ spawned <= 1
    /\ dialCalls = 0 \/ spawned = 0
    /\ session # "none" \/ task # "none" => dialCalls = 1

\* a client or a session is opened, and the task started, only from the state
\* in which there was none yet
C24_OpenedOnce ==
    /\ client' = "open" /\ client # "open" => client = "none" /\ dialCalls = 0
    /\ session' = "open" /\ session # "open" => session = "none"
    /\ task' = "running" /\ task # "running" => task = "none"
    /\ cpc = "returned" => cpc' = "returned" /\ dialCalls' = dialCalls /\ spawned' = spawned

\* C24: one call of Run dials at most once, opens at most one session and
\* starts the command at most once (one local process or one remote task),
\* and does nothing more once it has returned.
C24_NoInternalRetry == [](C24_AtMostOnce) /\ [][C24_OpenedOnce]_vars

\* Run returned the error of its only dial; no session, no task
C24_Witness ==
    /\ cpc = "returned" /\ path = "remote"
    /\ dialErr \in DialErrors /\ cret.err = dialErr
    /\ dialCalls = 1 /\ client = "none" /\ session = "none" /\ task = "none"

\* --------------------------------- further claims on Run and the host set
\* C25: whatever AddHost and RemoveHost do while Run is in progress, Run
\* launches as many units as it allocated result slots: no unit writes outside
\* the slice (which panics) and no slot of the returned slice is unwritten.
C25_UnitsMatchSlots ==
    /\ gpc # "panic"
    /\ gpc \in {"waiting", "returned"} => Len(units) = Len(results)
    /\ gpc = "returned" => \A k \in 1..Len(results) : results[k].filled

\* ------------------------------------------------------ termination
\* C26: processHosts, once called with a concurrency value that make()
\* accepts (0 included), eventually returns.
C26_EventuallyReturns ==
    ppc \in {"allocated", "iterating", "waiting"} ~> ppc = "returned"

\* C27: the task RunRemote starts eventually hands over its result and ends.
C27_TaskTerminates ==
    task \in {"running", "sending"} ~> task = "sent"

\* ------------------------------------------------- further error handling
\* C28: a remote Run that returns a nil error has executed the command on the
\* session and received its result.
C28_NilErrorMeansExecuted ==
    cpc = "returned" /\ path = "remote" /\ cret.err = Nil =>
      /\ sel.branch = "output"
      /\ session # "none"

\* ----------------------------------------------- further claims on NewHost
\* C29: a host that host.NewHost returns without error has a package manager
\* (the other managers are assigned unconditionally).
C29_ManagersWired ==
    nh.pc = "host.NewHost" /\ nh.out.err = Nil => nh.out.host.PackageManager # "nil"

\* ------------------------------------------- the error processHosts returns
\* the units whose host action returned an error
Failing == {k \in 1..Len(punits) : punits[k].err # Nil}

\* C30: processHosts returns an error iff some host action failed; the error
\* holds one entry per failing host, naming the host and wrapping its error,
\* and nothing else.
C30_OneEntryPerFailingHost ==
    ppc = "returned" =>
      /\ pret # <<>> <=> Failing # {}
      /\ Len(pret) = Cardinality(Failing)
      /\ \A k \in Failing :
           \E j \in 1..Len(pret) :
             pret[j].host = punits[k].h.name /\ pret[j].err = punits[k].err
      /\ \A j \in 1..Len(pret) :
           \E k \in Failing :
             pret[j].host = punits[k].h.name /\ pret[j].err = punits[k].err
      /\ \A j1, j2 \in 1..Len(pret) : pret[j1].host = pret[j2].host => j1 = j2

\* two hosts were processed, one failed: the returned error has one entry,
\* for the failing host
C30_Witness ==
    /\ ppc = "returned" /\ Len(punits) = 2 /\ Len(pret) = 1
    /\ \E k \in Failing : pret[1].host = punits[k].h.name
    /\ \E k \in 1..Len(punits) : k \notin Failing /\ pret[1].host # punits[k].h.name

=============================================================================
